---- MODULE Spec2Model ----
(***************************************************************************)
(* Model of pkg/scalers/elasticsearch_scaler.go: the Elasticsearch scaler  *)
(* of KEDA.  Strings are sequences of one-character strings, so that       *)
(* splitting, trimming and integer parsing are computed as the code        *)
(* computes them.  Errors are records; fmt.Errorf wrapping adds a prefix.  *)
(***************************************************************************)
EXTENDS Integers, Sequences, FiniteSets, TLC

VARIABLES
    config,          \* the ScalerConfig handed to the constructor / resolver
    phase,           \* "init", "failed" (constructor returned an error), "ready"
    scaler,          \* the elasticsearchScaler: metadata and esClient
    newErr,          \* the error NewElasticsearchScaler returned
    isActiveCall,    \* the latest IsActive call: ctx, search outcome, requests, result
    getMetricsCall,  \* the latest GetMetrics call, likewise
    metricSpecCall,  \* the latest GetMetricSpecForScaling call
    closeCall,       \* whether Close was called, and the error it returned
    parsed,          \* result of parseElasticsearchMetadata (resolver specification)
    body,            \* response body handed to getValueFromSearch (extractor specification)
    valueLocation,   \* path handed to getValueFromSearch (extractor specification)
    extracted,       \* result of getValueFromSearch (extractor specification)
    rawParameters,   \* the trigger metadata "parameters" string (query specification)
    templateName,    \* the search template name (query specification)
    built            \* result of buildQuery (query specification)

vars == <<config, phase, scaler, newErr, isActiveCall, getMetricsCall,
          metricSpecCall, closeCall, parsed, body, valueLocation, extracted,
          rawParameters, templateName, built>>

-----------------------------------------------------------------------------
(* Strings *)

RECURSIVE SeqsUpTo(_, _)
\* All sequences over alphabet A of length at most n.
SeqsUpTo(A, n) ==
    IF n = 0 THEN {<<>>}
    ELSE LET shorter == SeqsUpTo(A, n - 1)
         IN  shorter \cup {Append(s, c) : s \in shorter, c \in A}

Digits == {"0", "1", "2", "3", "4", "5", "6", "7", "8", "9"}

DigitVal(c) ==
    CASE c = "0" -> 0 [] c = "1" -> 1 [] c = "2" -> 2 [] c = "3" -> 3
      [] c = "4" -> 4 [] c = "5" -> 5 [] c = "6" -> 6 [] c = "7" -> 7
      [] c = "8" -> 8 [] c = "9" -> 9

RECURSIVE DigitsVal(_)
\* Value of a non-empty sequence of decimal digits.
DigitsVal(s) ==
    IF Len(s) = 0 THEN 0
    ELSE DigitsVal(SubSeq(s, 1, Len(s) - 1)) * 10 + DigitVal(s[Len(s)])

\* strconv.Atoi: an optional sign followed by at least one decimal digit,
\* nothing else.
Atoi(s) ==
    LET signed == Len(s) > 0 /\ s[1] \in {"+", "-"}
        ds     == IF signed THEN Tail(s) ELSE s
    IN  IF Len(ds) > 0 /\ \A i \in 1..Len(ds) : ds[i] \in Digits
        THEN [ok |-> TRUE,
              val |-> IF signed /\ s[1] = "-" THEN 0 - DigitsVal(ds) ELSE DigitsVal(ds)]
        ELSE [ok |-> FALSE, val |-> 0]

RECURSIVE TrimLeft(_)
TrimLeft(s) ==
    IF Len(s) > 0 /\ s[1] = " " THEN TrimLeft(Tail(s)) ELSE s

RECURSIVE TrimRight(_)
TrimRight(s) ==
    IF Len(s) > 0 /\ s[Len(s)] = " " THEN TrimRight(SubSeq(s, 1, Len(s) - 1)) ELSE s

\* strings.Trim(x, " ")
Trim(s) == TrimRight(TrimLeft(s))

RECURSIVE Split(_, _)
\* strings.Split(s, sep) for a one-character separator: always at least one piece.
Split(s, sep) ==
    IF \E i \in 1..Len(s) : s[i] = sep
    THEN LET i == CHOOSE k \in 1..Len(s) :
                      s[k] = sep /\ \A j \in 1..(k - 1) : s[j] # sep
         IN  <<SubSeq(s, 1, i - 1)>> \o Split(SubSeq(s, i + 1, Len(s)), sep)
    ELSE <<s>>

splitDroppingEmpty(s, sep) ==
    SelectSeq([i \in 1..Len(Split(s, sep)) |-> Trim(Split(s, sep)[i])],
              LAMBDA t : t # <<>>)

splitAndTrimBySep(s, sep) ==
    LET x == Split(s, sep)
    IN  [i \in 1..Len(x) |-> Trim(x[i])]

-----------------------------------------------------------------------------
(* Errors *)

NoErr == [wrap |-> <<>>, type |-> "nil", field |-> "", cite |-> <<>>]

Err(type, field, cite) == [wrap |-> <<>>, type |-> type, field |-> field, cite |-> cite]

\* fmt.Errorf(prefix + "%s", err): a new error whose message is prefixed.
Errorf(prefix, err) == [err EXCEPT !.wrap = <<prefix>> \o @]

-----------------------------------------------------------------------------
(* Value extractor *)

\* gjson result types, with the names Type.String() gives them.
TypeName(t) ==
    CASE t = "Null"   -> <<"N", "u", "l", "l">>
      [] t = "False"  -> <<"F", "a", "l", "s", "e">>
      [] t = "Number" -> <<"N", "u", "m", "b", "e", "r">>
      [] t = "String" -> <<"S", "t", "r", "i", "n", "g">>
      [] t = "True"   -> <<"T", "r", "u", "e">>
      [] t = "JSON"   -> <<"J", "S", "O", "N">>

\* A gjson.Result: Type, Str and Num (Num in tenths: 47 is the JSON number 4.7).
JNull      == [type |-> "Null",   str |-> <<>>, num |-> 0]
JTrue      == [type |-> "True",   str |-> <<>>, num |-> 0]
JFalse     == [type |-> "False",  str |-> <<>>, num |-> 0]
JComposite == [type |-> "JSON",   str |-> <<>>, num |-> 0]
JString(s) == [type |-> "String", str |-> s,    num |-> 0]
JNumber(t) == [type |-> "Number", str |-> <<>>, num |-> t]

\* gjson.GetBytes(body, path): the value at the path, or the zero Result
\* (Type Null) when the path does not resolve.
GetBytes(doc, path) ==
    IF path \in DOMAIN doc THEN doc[path] ELSE JNull

\* int(float64): truncation toward zero.
Trunc(tenths) ==
    IF tenths >= 0 THEN tenths \div 10 ELSE 0 - ((0 - tenths) \div 10)

Value(v) == [ok |-> TRUE, val |-> v, err |-> NoErr]

Fail(e) == [ok |-> FALSE, val |-> 0, err |-> e]

getValueFromSearchDefaultZero(doc, path) ==
    LET r == GetBytes(doc, path)
    IN  IF r.type = "String"
        THEN LET q == Atoi(r.str)
             IN  IF ~q.ok THEN Value(0) ELSE Value(q.val)
        ELSE IF r.type # "Number"
        THEN Value(0)
        ELSE Value(Trunc(r.num))

getValueFromSearch(doc, path) ==
    LET r == GetBytes(doc, path)
    IN  IF r.type = "String"
        THEN LET q == Atoi(r.str)
             IN  IF ~q.ok THEN Fail(Err("InvalidValueType", "valueLocation", r.str))
                 ELSE Value(q.val)
        ELSE IF r.type # "Number"
        THEN Fail(Err("InvalidValueType", "valueLocation", TypeName(r.type)))
        ELSE Value(Trunc(r.num))

-----------------------------------------------------------------------------
(* Configuration resolver *)

\* A Go map[string]string: a function on the keys that are present.
EmptyMap == [k \in {} |-> <<>>]

Has(m, k) == k \in DOMAIN m

\* m[k] in Go: the zero value "" when the key is absent.
Lookup(m, k) == IF k \in DOMAIN m THEN m[k] ELSE <<>>

\* GetFromAuthOrMeta(config, field): the auth parameter when it is non-empty,
\* else the trigger metadata value when it is non-empty, else an error.
GetFromAuthOrMeta(cfg, field) ==
    LET result == IF Lookup(cfg.auth, field) # <<>> THEN Lookup(cfg.auth, field)
                  ELSE IF Lookup(cfg.meta, field) # <<>> THEN Lookup(cfg.meta, field)
                  ELSE <<>>
    IN  [val |-> result,
         err |-> IF result = <<>> THEN Err("NoFieldGiven", field, <<>>) ELSE NoErr]

\* strconv.ParseBool
BoolTrue == { <<"1">>, <<"t">>, <<"T">>, <<"T", "R", "U", "E">>,
              <<"t", "r", "u", "e">>, <<"T", "r", "u", "e">> }

BoolFalse == { <<"0">>, <<"f">>, <<"F">>, <<"F", "A", "L", "S", "E">>,
               <<"f", "a", "l", "s", "e">>, <<"F", "a", "l", "s", "e">> }

ParseBool(s) == [ok |-> s \in BoolTrue \cup BoolFalse, val |-> s \in BoolTrue]

defaultUnsafeSsl == FALSE

\* The zero elasticsearchMetadata{}.
ZeroMeta ==
    [addresses |-> <<>>, unsafeSsl |-> FALSE, username |-> <<>>, password |-> <<>>,
     indexes |-> <<>>, searchTemplateName |-> <<>>, parameters |-> <<>>,
     valueLocation |-> <<>>, targetValue |-> 0]

ParseFail(e) == [ok |-> FALSE, meta |-> ZeroMeta, err |-> e]

\* Lines 81-85: the auth parameter when the key is present, else the trigger
\* metadata value when that key is present.
resolveUsernameMetaFirst(cfg) ==
    IF Has(cfg.meta, "username") THEN cfg.meta["username"]
    ELSE IF Has(cfg.auth, "username") THEN cfg.auth["username"]
    ELSE <<>>

resolveUsername(cfg) ==
    IF Has(cfg.auth, "username") THEN cfg.auth["username"]
    ELSE IF Has(cfg.meta, "username") THEN cfg.meta["username"]
    ELSE <<>>

\* Lines 87-91: the auth parameter when non-empty, else the resolved
\* environment value named by the trigger metadata passwordFromEnv.
resolvePassword(cfg) ==
    IF Lookup(cfg.auth, "password") # <<>> THEN Lookup(cfg.auth, "password")
    ELSE IF Lookup(cfg.meta, "passwordFromEnv") # <<>>
    THEN Lookup(cfg.env, Lookup(cfg.meta, "passwordFromEnv"))
    ELSE <<>>

parseElasticsearchMetadata(cfg) ==
    LET addresses   == GetFromAuthOrMeta(cfg, "addresses")
        unsafeSsl   == IF Has(cfg.meta, "unsafeSsl")
                       THEN ParseBool(cfg.meta["unsafeSsl"])
                       ELSE [ok |-> TRUE, val |-> defaultUnsafeSsl]
        index       == GetFromAuthOrMeta(cfg, "index")
        template    == GetFromAuthOrMeta(cfg, "searchTemplateName")
        parameters  == IF Has(cfg.meta, "parameters")
                       THEN splitAndTrimBySep(cfg.meta["parameters"], ";")
                       ELSE <<>>
        location    == GetFromAuthOrMeta(cfg, "valueLocation")
        targetValue == GetFromAuthOrMeta(cfg, "targetValue")
        target      == Atoi(targetValue.val)
    IN  IF addresses.err # NoErr THEN ParseFail(addresses.err)
        ELSE IF ~unsafeSsl.ok
        THEN ParseFail(Errorf("error parsing unsafeSsL: ",
                              Err("ParseBool", "unsafeSsl", cfg.meta["unsafeSsl"])))
        ELSE IF index.err # NoErr THEN ParseFail(index.err)
        ELSE IF template.err # NoErr THEN ParseFail(template.err)
        ELSE IF location.err # NoErr THEN ParseFail(location.err)
        ELSE IF targetValue.err # NoErr THEN ParseFail(targetValue.err)
        ELSE IF ~target.ok
        THEN ParseFail(Errorf("targetValue parsing error ",
                              Err("Atoi", "targetValue", targetValue.val)))
        ELSE [ok   |-> TRUE,
              meta |-> [addresses          |-> splitAndTrimBySep(addresses.val, ","),
                        unsafeSsl          |-> unsafeSsl.val,
                        username           |-> resolveUsername(cfg),
                        password           |-> resolvePassword(cfg),
                        indexes            |-> splitAndTrimBySep(index.val, ";"),
                        searchTemplateName |-> template.val,
                        parameters         |-> parameters,
                        valueLocation      |-> location.val,
                        targetValue        |-> target.val],
              err  |-> NoErr]

\* newElasticsearchClient: the client configuration built from the metadata;
\* creating the client or pinging the search engine (Info) may fail.
ClientOutcomes == {"ok", "newClientError", "pingError"}

NoClient == [addresses |-> <<>>, username |-> <<>>, password |-> <<>>,
             insecureSkipVerify |-> FALSE]

newElasticsearchClient(meta, outcome) ==
    IF outcome = "ok"
    THEN [client |-> [addresses |-> meta.addresses, username |-> meta.username,
                      password |-> meta.password,
                      insecureSkipVerify |-> meta.unsafeSsl],
          err |-> NoErr]
    ELSE [client |-> NoClient, err |-> Err(outcome, "", <<>>)]

NoScaler == [metadata |-> ZeroMeta, esClient |-> NoClient]

\* NewElasticsearchScaler: the scaler and a nil error, or no scaler and an error.
NewElasticsearchScaler(cfg, outcome) ==
    LET p == parseElasticsearchMetadata(cfg)
        c == newElasticsearchClient(p.meta, outcome)
    IN  IF ~p.ok
        THEN [ok |-> FALSE, scaler |-> NoScaler,
              err |-> Errorf("error parsing elasticsearch metadata: ", p.err)]
        ELSE IF c.err # NoErr
        THEN [ok |-> FALSE, scaler |-> NoScaler,
              err |-> Errorf("error getting elasticsearch client: ", c.err)]
        ELSE [ok |-> TRUE, scaler |-> [metadata |-> p.meta, esClient |-> c.client],
              err |-> NoErr]

-----------------------------------------------------------------------------
(* Query builder *)

NoParams == [k \in {} |-> <<>>]

Put(m, k, v) == [x \in DOMAIN m \cup {k} |-> IF x = k THEN v ELSE m[x]]

RECURSIVE buildParameters(_, _)
\* The loop of buildQuery: kv[1] of a token without a colon is an index out of
\* range, a run-time panic.
buildParameters(tokens, acc) ==
    IF Len(tokens) = 0 THEN [panic |-> FALSE, params |-> acc]
    ELSE LET p  == Head(tokens)
             kv == splitAndTrimBySep(p, ":")
         IN  IF p = <<>> THEN buildParameters(Tail(tokens), acc)
             ELSE IF Len(kv) < 2 THEN [panic |-> TRUE, params |-> NoParams]
             ELSE buildParameters(Tail(tokens), Put(acc, kv[1], kv[2]))

NoQuery == [panic |-> TRUE, id |-> <<>>, hasParams |-> FALSE, params |-> NoParams]

buildQuery(metadata) ==
    LET ps == buildParameters(metadata.parameters, NoParams)
    IN  IF ps.panic THEN NoQuery
        ELSE [panic     |-> FALSE,
              id        |-> metadata.searchTemplateName,
              hasParams |-> DOMAIN ps.params # {},
              params    |-> ps.params]

-----------------------------------------------------------------------------
(* Search client adapter and metric evaluator *)

PathHits   == <<"h", "i", "t", "s", ".", "t", "o", "t", "a", "l">>
PathStatus == <<"s", "t", "a", "t", "u", "s">>
PathError  == <<"e", "r", "r", "o", "r">>

\* What esClient.SearchTemplate and the read of the response body can give:
\* a transport error and no response; or a response (err = nil) with an HTTP
\* status and a body, whose read (ioutil.ReadAll) may fail.  A response with
\* an error status (401, 404) carries the search engine's error document.
TransportError(msg) ==
    [kind |-> "transportError", err |-> Err("Transport", "", msg),
     status |-> 0, readFails |-> FALSE, doc |-> EmptyMap]

Response(status, doc) ==
    [kind |-> "response", err |-> NoErr, status |-> status, readFails |-> FALSE,
     doc |-> doc]

BrokenBody(status) ==
    [kind |-> "response", err |-> NoErr, status |-> status, readFails |-> TRUE,
     doc |-> EmptyMap]

ErrorDocument(status) ==
    (PathStatus :> JNumber(status * 10)) @@ (PathError :> JComposite)

Hits(v) == (PathHits :> v) @@ (<<"t", "o", "o", "k">> :> JNumber(30))

Rejected(o) == o.kind = "transportError" \/ o.status >= 300

\* The request the adapter submits: the encoded query and the index set.
Request(query, indexes) == [query |-> query, indexes |-> indexes]

NoResult == [panic |-> FALSE, requests |-> <<>>, ok |-> FALSE, val |-> 0, err |-> NoErr]

\* getQueryResult: build the query, run the templated search, read the body,
\* extract the value.
getQueryResult(s, outcome) ==
    LET q   == buildQuery(s.metadata)
        req == <<Request(q, s.metadata.indexes)>>
        v   == getValueFromSearch(outcome.doc, s.metadata.valueLocation)
    IN  IF q.panic
        THEN [panic |-> TRUE, requests |-> <<>>, ok |-> FALSE, val |-> 0, err |-> NoErr]
        ELSE IF outcome.kind = "transportError"
        THEN [panic |-> FALSE, requests |-> req, ok |-> FALSE, val |-> 0,
              err |-> outcome.err]
        ELSE IF outcome.readFails
        THEN [panic |-> FALSE, requests |-> req, ok |-> FALSE, val |-> 0,
              err |-> Err("ReadBody", "", <<>>)]
        ELSE [panic |-> FALSE, requests |-> req, ok |-> v.ok, val |-> v.val,
              err |-> v.err]

\* What a call returned: kind is "ok", "err" or "panic".
Ret(kind, active, values, err) ==
    [kind |-> kind, active |-> active, values |-> values, err |-> err]

IsActiveNonNegative(r) ==
    IF r.panic THEN Ret("panic", FALSE, <<>>, NoErr)
    ELSE IF ~r.ok THEN Ret("err", FALSE, <<>>, r.err)
    ELSE Ret("ok", r.val >= 0, <<>>, NoErr)

\* IsActive, given the result r of its getQueryResult call.
IsActive(r) ==
    IF r.panic THEN Ret("panic", FALSE, <<>>, NoErr)
    ELSE IF ~r.ok THEN Ret("err", FALSE, <<>>, r.err)
    ELSE Ret("ok", r.val > 0, <<>>, NoErr)

GetMetricsErrorAsZero(r, metricName) ==
    IF r.panic THEN Ret("panic", FALSE, <<>>, NoErr)
    ELSE Ret("ok", FALSE, <<[MetricName |-> metricName,
                             Value |-> IF r.ok THEN r.val ELSE 0]>>, NoErr)

\* GetMetrics, given the result r of its getQueryResult call.
GetMetrics(r, metricName) ==
    IF r.panic THEN Ret("panic", FALSE, <<>>, NoErr)
    ELSE IF ~r.ok
    THEN Ret("err", FALSE, <<>>, Errorf("error inspecting elasticsearch: ", r.err))
    ELSE Ret("ok", FALSE, <<[MetricName |-> metricName, Value |-> r.val]>>, NoErr)

\* GetMetricSpecForScaling: the metric name is made of the target value (as
\* index) and the normalized "elasticsearch-<template>".
GetMetricSpecForScaling(s) ==
    <<[Type     |-> "External",
       External |-> [Metric |-> [Name |-> [index  |-> s.metadata.targetValue,
                                          prefix |-> "elasticsearch-",
                                          name   |-> s.metadata.searchTemplateName]],
                     Target |-> [Type         |-> "AverageValue",
                                 AverageValue |-> s.metadata.targetValue]]]>>

-----------------------------------------------------------------------------
(* Life cycle of one scaler: construction, then polls by the host *)

Opt(k, V) == {EmptyMap} \cup {k :> v : v \in V}

\* Configurations the host may hand to the constructor.
Configs ==
    { [auth |-> EmptyMap, meta |-> a @@ i @@ t @@ v @@ g @@ p, env |-> EmptyMap] :
        a \in Opt("addresses", { <<"h", ",", "g">> }),
        i \in Opt("index", { <<" ">>, <<"i", ";", "j">> }),
        t \in Opt("searchTemplateName", { <<"t">> }),
        v \in Opt("valueLocation", { PathHits, PathStatus }),
        g \in Opt("targetValue", { <<"7">>, <<"x">> }),
        p \in Opt("parameters", { <<"a", ":", "b", ";", ";", " ", "a", ":", "c">>,
                                  <<"a", ":", "b", ";", "f", "o", "o">> }) }

\* What the search engine may answer to one templated search.
SearchOutcomes ==
    { TransportError(<<"r", "e", "f", "u", "s", "e", "d">>),
      BrokenBody(200),
      Response(404, ErrorDocument(404)),
      Response(200, <<"t", "o", "o", "k">> :> JNumber(30)) }
    \cup { Response(200, Hits(v)) :
             v \in { JNumber(420), JNumber(0), JNumber(0 - 15), JString(<<"a">>) } }

MetricNames == {"s0-elasticsearch-t"}

NoCall ==
    [called |-> FALSE, ctxCancelled |-> FALSE, outcome |-> TransportError(<<>>),
     query |-> NoResult, ret |-> Ret("none", FALSE, <<>>, NoErr)]

NoSpecCall == [called |-> FALSE, requests |-> <<>>, spec |-> <<>>]

Init ==
    /\ config = [auth |-> EmptyMap, meta |-> EmptyMap, env |-> EmptyMap]
    /\ phase = "init"
    /\ scaler = NoScaler
    /\ newErr = NoErr
    /\ isActiveCall = NoCall
    /\ getMetricsCall = NoCall
    /\ metricSpecCall = NoSpecCall
    /\ closeCall = [called |-> FALSE, err |-> NoErr]
    /\ parsed = ParseFail(NoErr)
    /\ body = EmptyMap
    /\ valueLocation = <<>>
    /\ extracted = Fail(NoErr)
    /\ rawParameters = <<>>
    /\ templateName = <<>>
    /\ built = NoQuery

pureVars == <<parsed, body, valueLocation, extracted, rawParameters, templateName, built>>

\* The host constructs the scaler.
CallNew ==
    /\ phase = "init"
    /\ \E cfg \in Configs, o \in ClientOutcomes :
         LET r == NewElasticsearchScaler(cfg, o)
         IN  /\ config' = cfg
             /\ phase' = IF r.ok THEN "ready" ELSE "failed"
             /\ scaler' = r.scaler
             /\ newErr' = r.err
    /\ UNCHANGED <<isActiveCall, getMetricsCall, metricSpecCall, closeCall, pureVars>>

\* The host polls IsActive(ctx); the context may already be cancelled, or be
\* cancelled before the round trip completes.  A panic ends the process.
CallIsActive ==
    /\ phase = "ready"
    /\ \E cancelled \in BOOLEAN, o \in SearchOutcomes :
         LET r == getQueryResult(scaler, o)
         IN  /\ isActiveCall' = [called |-> TRUE, ctxCancelled |-> cancelled,
                                 outcome |-> o, query |-> r, ret |-> IsActive(r)]
             /\ phase' = IF r.panic THEN "crashed" ELSE phase
    /\ UNCHANGED <<config, scaler, newErr, getMetricsCall, metricSpecCall, closeCall,
                   pureVars>>

\* The host polls GetMetrics(ctx, metricName, selector).
CallGetMetrics ==
    /\ phase = "ready"
    /\ \E cancelled \in BOOLEAN, o \in SearchOutcomes, name \in MetricNames :
         LET r == getQueryResult(scaler, o)
         IN  /\ getMetricsCall' = [called |-> TRUE, ctxCancelled |-> cancelled,
                                   outcome |-> o, query |-> r,
                                   ret |-> GetMetrics(r, name)]
             /\ phase' = IF r.panic THEN "crashed" ELSE phase
    /\ UNCHANGED <<config, scaler, newErr, isActiveCall, metricSpecCall, closeCall,
                   pureVars>>

CallGetMetricSpecForScaling ==
    /\ phase = "ready"
    /\ metricSpecCall' = [called |-> TRUE, requests |-> <<>>,
                          spec |-> GetMetricSpecForScaling(scaler)]
    /\ UNCHANGED <<config, phase, scaler, newErr, isActiveCall, getMetricsCall,
                   closeCall, pureVars>>

\* Close returns nil and releases nothing.
CallClose ==
    /\ phase = "ready"
    /\ closeCall' = [called |-> TRUE, err |-> NoErr]
    /\ UNCHANGED <<config, phase, scaler, newErr, isActiveCall, getMetricsCall,
                   metricSpecCall, pureVars>>

Next ==
    \/ CallNew
    \/ CallIsActive
    \/ CallGetMetrics
    \/ CallGetMetricSpecForScaling
    \/ CallClose

Spec == Init /\ [][Next]_vars

-----------------------------------------------------------------------------
(* The value extractor on its own: every response value and path *)

MaxStrLen == 3

MaxNum == 25

StrAlphabet == {"4", "0", "-", "+", "a", ".", " "}

ExtractValues ==
    {JNull, JTrue, JFalse, JComposite}
    \cup {JString(x) : x \in SeqsUpTo(StrAlphabet, MaxStrLen)}
    \cup {JNumber(t) : t \in (0 - MaxNum)..MaxNum}

ExtractPaths == {PathHits, PathStatus}

ExtractDocs == {EmptyMap} \cup {p :> v : p \in ExtractPaths, v \in ExtractValues}

InitExtract ==
    /\ config = [auth |-> EmptyMap, meta |-> EmptyMap, env |-> EmptyMap]
    /\ phase = "init"
    /\ scaler = NoScaler
    /\ newErr = NoErr
    /\ isActiveCall = NoCall
    /\ getMetricsCall = NoCall
    /\ metricSpecCall = NoSpecCall
    /\ closeCall = [called |-> FALSE, err |-> NoErr]
    /\ parsed = ParseFail(NoErr)
    /\ body \in ExtractDocs
    /\ valueLocation \in ExtractPaths
    /\ extracted = Fail(NoErr)
    /\ rawParameters = <<>>
    /\ templateName = <<>>
    /\ built = NoQuery

lifeVars == <<config, scaler, newErr, isActiveCall, getMetricsCall, metricSpecCall,
              closeCall>>

Extract ==
    /\ phase = "init"
    /\ extracted' = getValueFromSearch(body, valueLocation)
    /\ phase' = "done"
    /\ UNCHANGED <<lifeVars, parsed, body, valueLocation, rawParameters, templateName,
                   built>>

NextExtract == Extract

SpecExtract == InitExtract /\ [][NextExtract]_vars

-----------------------------------------------------------------------------
(* The query builder on its own: every parameters string *)

MaxParamLen == 6

ParamAlphabet == {"a", "b", ":", ";", " "}

TemplateNames == { <<"t">>, <<"u", "v">> }

InitQuery ==
    /\ config = [auth |-> EmptyMap, meta |-> EmptyMap, env |-> EmptyMap]
    /\ phase = "init"
    /\ scaler = NoScaler
    /\ newErr = NoErr
    /\ isActiveCall = NoCall
    /\ getMetricsCall = NoCall
    /\ metricSpecCall = NoSpecCall
    /\ closeCall = [called |-> FALSE, err |-> NoErr]
    /\ parsed = ParseFail(NoErr)
    /\ body = EmptyMap
    /\ valueLocation = <<>>
    /\ extracted = Fail(NoErr)
    /\ rawParameters \in SeqsUpTo(ParamAlphabet, MaxParamLen)
    /\ templateName \in TemplateNames
    /\ built = NoQuery

\* The metadata's parameter tokens, as parseElasticsearchMetadata splits them.
QueryMetadata ==
    [ZeroMeta EXCEPT !.searchTemplateName = templateName,
                     !.parameters = splitAndTrimBySep(rawParameters, ";")]

BuildQuery ==
    /\ phase = "init"
    /\ built' = buildQuery(QueryMetadata)
    /\ phase' = "done"
    /\ UNCHANGED <<lifeVars, parsed, body, valueLocation, extracted, rawParameters,
                   templateName>>

NextQuery == BuildQuery

SpecQuery == InitQuery /\ [][NextQuery]_vars

-----------------------------------------------------------------------------
(* The configuration resolver on its own: every source of every field *)

ResolveConfigs ==
    { [auth |-> aa @@ ai @@ at @@ av @@ ag @@ au @@ ap,
       meta |-> ma @@ mi @@ mt @@ mv @@ mg @@ mu @@ mp @@ me @@ ms,
       env  |-> <<"E">> :> <<"s">>] :
        aa \in Opt("addresses", { <<>>, <<"h">> }),
        ma \in Opt("addresses", { <<"g", ",", "k">> }),
        ai \in Opt("index", { <<"i">> }),
        mi \in { "index" :> <<"j">> },
        at \in Opt("searchTemplateName", { <<>>, <<"t">> }),
        mt \in Opt("searchTemplateName", { <<"u">> }),
        av \in Opt("valueLocation", { <<"p">> }),
        mv \in { "valueLocation" :> <<"q">> },
        ag \in Opt("targetValue", { <<"7">> }),
        mg \in Opt("targetValue", { <<"8">>, <<"x">> }),
        au \in Opt("username", { <<>>, <<"u">> }),
        mu \in Opt("username", { <<"v">> }),
        ap \in Opt("password", { <<>>, <<"p">> }),
        mp \in Opt("password", { <<"q">> }),
        me \in Opt("passwordFromEnv", { <<"E">> }),
        ms \in Opt("unsafeSsl", { <<"t", "r", "u", "e">>, <<"x">> }) }

Resolve ==
    /\ phase = "init"
    /\ \E cfg \in ResolveConfigs :
         /\ config' = cfg
         /\ parsed' = parseElasticsearchMetadata(cfg)
    /\ phase' = "done"
    /\ UNCHANGED <<scaler, newErr, isActiveCall, getMetricsCall, metricSpecCall,
                   closeCall, body, valueLocation, extracted, rawParameters,
                   templateName, built>>

NextResolve == Resolve

SpecResolve == Init /\ [][NextResolve]_vars

-----------------------------------------------------------------------------
(* Claims *)

Calls == {isActiveCall, getMetricsCall}

\* C1: IsActive returns true exactly when the integer getQueryResult extracted
\* is strictly greater than zero, and when getQueryResult fails (transport,
\* body read or extraction) IsActive returns that very error with active =
\* false reported as an error, never as a successful answer.
C1_IsActiveIffPositive ==
    isActiveCall.called =>
        LET q == isActiveCall.query
            r == isActiveCall.ret
        IN  /\ (r.kind = "ok" /\ r.active) <=> (~q.panic /\ q.ok /\ q.val > 0)
            /\ (~q.panic /\ q.ok) => r.kind = "ok"
            /\ (~q.panic /\ ~q.ok) => (r.kind = "err" /\ r.err = q.err /\ ~r.active)

C1_Witness ==
    /\ isActiveCall.called
    /\ isActiveCall.outcome.kind = "transportError"
    /\ isActiveCall.ret.kind = "err"
    /\ isActiveCall.ret.err = isActiveCall.outcome.err

Located == GetBytes(body, valueLocation)

\* s is an optional sign followed by one or more decimal digits.
IsIntegerText(s) ==
    \E k \in 0..1 :
        /\ Len(s) > k
        /\ k = 1 => s[1] \in {"+", "-"}
        /\ \A i \in (k + 1)..Len(s) : s[i] \in Digits

RECURSIVE Pow10(_)
Pow10(n) == IF n = 0 THEN 1 ELSE 10 * Pow10(n - 1)

RECURSIVE SumDigits(_, _)
\* Sum of digit * 10^position over the digits of s from index i on.
SumDigits(s, i) ==
    IF i > Len(s) THEN 0
    ELSE (IF s[i] \in Digits THEN DigitVal(s[i]) * Pow10(Len(s) - i) ELSE 0)
         + SumDigits(s, i + 1)

IntegerOf(s) == IF s[1] = "-" THEN 0 - SumDigits(s, 1) ELSE SumDigits(s, 1)

\* C3: getValueFromSearch returns the parsed integer for a string that parses
\* as an integer, an InvalidValueType error citing the literal string for a
\* string that does not, the number truncated toward zero for a number, and
\* an InvalidValueType error citing the type name for anything else (absent,
\* null, boolean, array, object); a path that does not resolve is an error,
\* never the value 0.
C3_ExtractorCoercion ==
    phase = "done" =>
        LET r == Located
            e == extracted
        IN  /\ (r.type = "String" /\ IsIntegerText(r.str))
                 => (e.ok /\ e.val = IntegerOf(r.str) /\ e.err = NoErr)
            /\ (r.type = "String" /\ ~IsIntegerText(r.str))
                 => (~e.ok /\ e.err.type = "InvalidValueType" /\ e.err.cite = r.str)
            /\ (r.type = "Number")
                 => /\ e.ok
                    /\ e.err = NoErr
                    /\ (r.num >= 0 => (e.val * 10 <= r.num /\ r.num < e.val * 10 + 10))
                    /\ (r.num < 0 => (e.val * 10 >= r.num /\ r.num > e.val * 10 - 10))
            /\ (r.type \notin {"String", "Number"})
                 => /\ ~e.ok
                    /\ e.err.type = "InvalidValueType"
                    /\ e.err.cite = (CASE r.type = "Null"  -> <<"N", "u", "l", "l">>
                                       [] r.type = "True"  -> <<"T", "r", "u", "e">>
                                       [] r.type = "False" -> <<"F", "a", "l", "s", "e">>
                                       [] r.type = "JSON"  -> <<"J", "S", "O", "N">>)
            /\ (valueLocation \notin DOMAIN body) => ~e.ok

C3_Witness ==
    /\ phase = "done"
    /\ valueLocation \notin DOMAIN body
    /\ body # EmptyMap
    /\ ~extracted.ok
    /\ extracted.err.cite = <<"N", "u", "l", "l">>

\* The non-empty parameter tokens of the configuration that do not consist of
\* exactly two colon-separated parts.
MalformedTokens(cfg) ==
    LET tokens == IF Has(cfg.meta, "parameters")
                  THEN Split(cfg.meta["parameters"], ";")
                  ELSE <<>>
    IN  {i \in 1..Len(tokens) : Trim(tokens[i]) # <<>> /\ Len(Split(tokens[i], ":")) # 2}

\* C4 (as claimed): a configuration holding a malformed parameter token makes
\* construction fail; no scaler is returned and the token is not first
\* discovered by a poll.
C4_MalformedTokenRejected ==
    (phase # "init" /\ MalformedTokens(config) # {})
    => (phase = "failed" /\ newErr # NoErr /\ scaler = NoScaler)

\* C5 (as claimed): when the search engine rejects the templated search
\* (transport failure, or an HTTP error status such as 401 or 404) the poll
\* ends in an error that surfaces the underlying error; a failed search never
\* produces a metric value or an activity answer.
C5_RejectedSearchSurfacesError ==
    \A c \in Calls :
        (c.called /\ ~c.query.panic /\ Rejected(c.outcome))
        => /\ c.ret.kind = "err"
           /\ c.ret.values = <<>>
           /\ c.outcome.kind = "transportError"
                => (c.ret.err.type = "Transport" /\ c.ret.err.cite = c.outcome.err.cite)
           /\ c.outcome.kind = "response"
                => c.ret.err.type \in {"Transport", "SearchEngine"}


\* The field is given by neither map (absent or empty in both).
NotGiven(cfg, field) == Lookup(cfg.auth, field) = <<>> /\ Lookup(cfg.meta, field) = <<>>

\* C6: whenever a scaler exists (after construction and after any sequence of
\* IsActive, GetMetrics, GetMetricSpecForScaling and Close calls) its indexes,
\* addresses, searchTemplateName and valueLocation are non-empty, and a
\* configuration lacking one of them is rejected by the constructor with an
\* error and no scaler.
C6_MandatoryFieldsNonEmpty ==
    /\ phase \in {"ready", "crashed"}
         => /\ Len(scaler.metadata.indexes) > 0
            /\ Len(scaler.metadata.addresses) > 0
            /\ Len(scaler.esClient.addresses) > 0
            /\ scaler.metadata.searchTemplateName # <<>>
            /\ scaler.metadata.valueLocation # <<>>
    /\ (/\ phase # "init"
        /\ \E f \in {"index", "addresses", "searchTemplateName", "valueLocation"} :
              NotGiven(config, f))
         => (phase = "failed" /\ newErr # NoErr /\ scaler = NoScaler)

C6_Witness ==
    /\ phase = "ready"
    /\ isActiveCall.called
    /\ getMetricsCall.called
    /\ metricSpecCall.called
    /\ closeCall.called
    /\ config.meta["index"] = <<" ">>
    /\ scaler.metadata.indexes = << <<>> >>

\* The well-formed reading of a token list: every non-empty token has exactly
\* two colon-separated parts.
WellFormed(tokens) ==
    \A i \in 1..Len(tokens) : tokens[i] # <<>> => Len(Split(tokens[i], ":")) = 2

\* The last token of the list whose key is k, or 0.
LastWithKey(tokens, k) ==
    LET hits == {i \in 1..Len(tokens) :
                    tokens[i] # <<>> /\ Trim(Split(tokens[i], ":")[1]) = k}
    IN  IF hits = {} THEN 0 ELSE CHOOSE i \in hits : \A j \in hits : j <= i

TokenKeys(tokens) ==
    {Trim(Split(tokens[i], ":")[1]) : i \in {j \in 1..Len(tokens) : tokens[j] # <<>>}}

\* C7 (as claimed): for every template name and parameter-token list buildQuery
\* returns a document whose id is the template name and whose params is the
\* mapping of the non-empty tokens (a later duplicate key overwriting an earlier
\* one), present exactly when that mapping is non-empty.
C7_QueryDocument ==
    phase = "done" =>
        LET tokens == QueryMetadata.parameters
        IN  /\ ~built.panic
            /\ built.id = templateName
            /\ WellFormed(tokens) =>
                 /\ DOMAIN built.params = TokenKeys(tokens)
                 /\ \A k \in TokenKeys(tokens) :
                       built.params[k] = Trim(Split(tokens[LastWithKey(tokens, k)], ":")[2])
                 /\ built.hasParams <=> (TokenKeys(tokens) # {})

\* What a field of the metadata is made of, from the raw configuration value.
Mandatory == {"addresses", "index", "searchTemplateName", "valueLocation", "targetValue"}

Specifies(m, field) == Has(m, field) /\ m[field] # <<>>

Resolved(meta, field) ==
    CASE field = "addresses"          -> meta.addresses
      [] field = "index"              -> meta.indexes
      [] field = "searchTemplateName" -> meta.searchTemplateName
      [] field = "valueLocation"      -> meta.valueLocation
      [] field = "username"           -> meta.username
      [] field = "password"           -> meta.password

\* The raw value as the field holds it: lists are split and trimmed.
FieldOf(field, raw) ==
    CASE field = "addresses" -> [i \in 1..Len(Split(raw, ",")) |-> Trim(Split(raw, ",")[i])]
      [] field = "index"     -> [i \in 1..Len(Split(raw, ";")) |-> Trim(Split(raw, ";")[i])]
      [] OTHER               -> raw

\* C8 (as claimed): for every dual-sourced field, username and password
\* included, the auth-parameter value is the resolved one when both maps
\* specify the field, and the trigger-metadata value is the resolved one when
\* only the trigger-metadata map specifies it.
C8_AuthPrecedenceEveryField ==
    (phase = "done" /\ parsed.ok) =>
        \A f \in {"addresses", "index", "searchTemplateName", "valueLocation",
                  "username", "password"} :
            /\ (Specifies(config.auth, f) /\ Specifies(config.meta, f))
                 => Resolved(parsed.meta, f) = FieldOf(f, config.auth[f])
            /\ (~Specifies(config.auth, f) /\ Specifies(config.meta, f))
                 => Resolved(parsed.meta, f) = FieldOf(f, config.meta[f])

\* C8 (amended): for addresses, index, searchTemplateName, valueLocation and
\* targetValue a non-empty auth parameter wins and the trigger metadata value
\* is used when the auth parameter is absent or empty; username is the auth
\* parameter whenever its key is present (even empty), else the trigger
\* metadata value; password is the auth parameter when non-empty, else the
\* resolved environment value named by the trigger metadata passwordFromEnv,
\* and a trigger metadata "password" is never read.
C8_PrecedencePerField ==
    (phase = "done" /\ parsed.ok) =>
        LET a == config.auth
            m == config.meta
            pick(f) == IF Specifies(a, f) THEN a[f] ELSE m[f]
        IN  /\ \A f \in Mandatory \ {"targetValue"} :
                  Resolved(parsed.meta, f) = FieldOf(f, pick(f))
            /\ IsIntegerText(pick("targetValue"))
            /\ parsed.meta.targetValue = IntegerOf(pick("targetValue"))
            /\ Has(a, "username") => parsed.meta.username = a["username"]
            /\ (~Has(a, "username") /\ Has(m, "username"))
                 => parsed.meta.username = m["username"]
            /\ (~Has(a, "username") /\ ~Has(m, "username")) => parsed.meta.username = <<>>
            /\ Specifies(a, "password") => parsed.meta.password = a["password"]
            /\ (~Specifies(a, "password") /\ Specifies(m, "passwordFromEnv"))
                 => /\ m["passwordFromEnv"] \in DOMAIN config.env
                    /\ parsed.meta.password = config.env[m["passwordFromEnv"]]
            /\ (~Specifies(a, "password") /\ ~Specifies(m, "passwordFromEnv"))
                 => parsed.meta.password = <<>>

C8_Witness ==
    /\ phase = "done"
    /\ parsed.ok
    /\ Has(config.auth, "username") /\ config.auth["username"] = <<>>
    /\ Has(config.meta, "username")
    /\ Specifies(config.auth, "addresses") /\ Specifies(config.meta, "addresses")
    /\ ~Specifies(config.auth, "password") /\ Specifies(config.meta, "password")
    /\ Specifies(config.meta, "passwordFromEnv")
    /\ parsed.meta.password = <<"s">>
    /\ parsed.meta.username = <<>>

\* C9 (as claimed): every IsActive and every GetMetrics call performs exactly
\* one round trip and its result depends only on that round trip's response;
\* GetMetricSpecForScaling performs none; and no call changes the resolved
\* metadata or the connection handle.
C9_OneRoundTripStateless ==
    /\ \A c \in Calls :
          c.called =>
              /\ Len(c.query.requests) = 1
              /\ c.ret.kind \in {"ok", "err"}
              /\ \A d \in Calls :
                    (d.called /\ d.outcome = c.outcome) => d.query = c.query
    /\ metricSpecCall.requests = <<>>
    /\ phase \in {"ready", "crashed"}
         => scaler = NewElasticsearchScaler(config, "ok").scaler

\* C10 (as claimed): a call whose context is cancelled before the round trip
\* completes fails with a cancellation error and returns neither a metric
\* value nor an activity answer.
C10_CancelledContextFails ==
    \A c \in Calls :
        (c.called /\ c.ctxCancelled /\ ~c.query.panic)
        => (c.ret.kind = "err" /\ c.ret.err.type = "ContextCanceled")

====
